---- MODULE Spec2Model ----
(***************************************************************************)
(* Simulated annealing for MaxCut, as written in                           *)
(* Modules/Applications/MaxCut Algorithms/simulated_annealing.ipynb.       *)
(*                                                                         *)
(* The notebook defines temperature_decay(num_steps, graph) and            *)
(* simulated_annealing(init_temperature, num_steps, graph); its last cell  *)
(* assigns the module-level name init_temperature and calls                *)
(* simulated_annealing.  One behaviour of the model is one kernel session: *)
(* module-level assignments of init_temperature followed by one call.      *)
(*                                                                         *)
(* Nodes are numbered from 0 as in Python; a solution is a TLA+ sequence,  *)
(* so the label of node u is solution[u + 1].                              *)
(* Floats are modelled as exact rationals <<numerator, denominator>> with  *)
(* a positive denominator.                                                 *)
(***************************************************************************)
EXTENDS Integers, Sequences, FiniteSets

\* ------------------------------------------------------------------ bounds

MaxN == 4
MaxSteps == 3
MaxTemp == 2

\* ------------------------------------------------------- program constants

\* 1e-6, the constant added to the temperature in the acceptance divisor
EpsilonDen == 1000000
\* np.exp(x) is 0.0 in double precision once x is below about -745.13
ExpUnderflow == 745

\* ------------------------------------------------------------------ inputs

\* Edge weights of the chain graphs: 2, -1, 2, ...
ChainWeight(i) == IF i % 2 = 0 THEN 2 ELSE -1

\* 0 - 1 - 2 - ... - (n-1)
ChainEdges(n) == {<<i, i + 1, ChainWeight(i)>> : i \in 0 .. n - 2}

\* The n-cycle with unit weights (n >= 3), the scenario graph of the spec
RingEdges(n) == IF n >= 3
                THEN {<<i, (i + 1) % n, 1>> : i \in 0 .. n - 1}
                ELSE {}

\* The graphs a caller may pass
Graphs == UNION {{[nodeCount |-> n, edges |-> E] :
                     E \in {{}, ChainEdges(n), RingEdges(n)}} : n \in 0 .. MaxN}

\* The values a cell assigns to the module-level init_temperature (no
\* validation is done by the code, so non-positive values are included)
TempValues == -1 .. MaxTemp

\* The values a caller passes as the init_temperature argument
ArgTempValues == {1, MaxTemp}

\* The values a caller passes as num_steps
StepValues == -1 .. MaxSteps

\* A draw u of random.random(), u in [0,1), is written <<a, b>>:
\* u = exp(-a/b) for b > 0, and u = 0.0 for b = 0.
UniformDraws == {<<1, 0>>, <<1, 4>>, <<1, 1>>, <<4, 1>>}

\* ----------------------------------------------------- rational arithmetic

Rat(a) == <<a, 1>>

RNeg(x) == <<-x[1], x[2]>>

RAdd(x, y) == <<x[1] * y[2] + y[1] * x[2], x[2] * y[2]>>

RSub(x, y) == RAdd(x, RNeg(y))

RMul(x, y) == <<x[1] * y[1], x[2] * y[2]>>

\* x / y for y # 0, keeping the denominator positive
RDiv(x, y) == IF y[1] > 0
              THEN <<x[1] * y[2], x[2] * y[1]>>
              ELSE <<-(x[1] * y[2]), -(x[2] * y[1])>>

RLess(x, y) == x[1] * y[2] < y[1] * x[2]

REq(x, y) == x[1] * y[2] = y[1] * x[2]

RIsZero(x) == x[1] = 0

Epsilon == <<1, EpsilonDen>>

\* ------------------------------------------------------------- evaluator

RECURSIVE SumCut(_, _)
SumCut(solution, E) ==
    IF E = {} THEN 0
    ELSE LET e == CHOOSE x \in E : TRUE
         IN (IF solution[e[1] + 1] # solution[e[2] + 1] THEN e[3] ELSE 0)
            + SumCut(solution, E \ {e})

\* obj_maxcut rejects a solution whose length is not the node count
EvaluateRaises(solution, g) == Len(solution) # g.nodeCount

\* obj_maxcut(solution, graph): the weight of the edges crossing the cut
Evaluate(solution, g) == SumCut(solution, g.edges)

\* ------------------------------------------------------------ engine parts

\* [0] * int(N / 2) + [1] * int(N / 2)
InitSolution(n) == [i \in 1 .. (n \div 2) |-> 0] \o [i \in 1 .. (n \div 2) |-> 1]

\* init_temperature * (1 - (k + 1) / num_steps)
TemperatureLate(T0, k, n) == RMul(Rat(T0), RSub(Rat(1), RDiv(Rat(k), Rat(n))))

Temperature(T0, k, n) == RMul(Rat(T0), RSub(Rat(1), RDiv(Rat(k + 1), Rat(n))))

\* new_solution[idx] = (new_solution[idx] + 1) % 2 on a copy
FlipSetsOne(solution, idx) == [solution EXCEPT ![idx + 1] = 1]

Flip(solution, idx) == [solution EXCEPT ![idx + 1] = (@ + 1) % 2]

\* temperature + 1e-6
Divisor(temperature) == RAdd(temperature, Epsilon)

\* - delta_e / (temperature + 1e-6), the argument of np.exp
Exponent(delta_e, temperature) == RDiv(RNeg(Rat(delta_e)), Divisor(temperature))

\* prob > u, for prob = np.exp(exponent)
ProbExceedsReversed(exponent, u) ==
    IF u[2] = 0
    THEN FALSE
    ELSE RLess(exponent, RNeg(u))

ProbExceeds(exponent, u) ==
    IF u[2] = 0
    THEN (exponent[1] \div exponent[2]) >= -ExpUnderflow
    ELSE RLess(RNeg(u), exponent)

\* the two branches of the acceptance rule
Accepts(delta_e, temperature, u) ==
    IF delta_e < 0 THEN TRUE ELSE ProbExceeds(Exponent(delta_e, temperature), u)

\* curr_solution after the acceptance rule
NextSolutionAliased(accepted, new_solution, curr_solution) == new_solution

NextSolution(accepted, new_solution, curr_solution) ==
    IF accepted THEN new_solution ELSE curr_solution

\* curr_score after the acceptance rule
NextScoreStale(accepted, new_score, curr_score) == curr_score

NextScore(accepted, new_score, curr_score) ==
    IF accepted THEN new_score ELSE curr_score

\* ------------------------------------------------------------------ state

VARIABLES
    module_init_temperature, \* the module-level name: <<>> unbound, <<v>> bound
    init_temperature,        \* argument of simulated_annealing
    num_steps,               \* argument
    graph,                   \* argument
    pc,                      \* "idle", "iterating", "done", "failed"
    error,                   \* <<>> or <<exception, source line>>
    curr_solution,
    curr_score,
    init_score,
    num_nodes,
    scores,
    k,                       \* index of the next step of the loop
    step,                    \* <<>> or <<locals of the last executed step>>
    num_evals,               \* calls of obj_maxcut so far
    num_draws,               \* calls of random.random() so far
    result                   \* <<>> or the returned <<curr_score, curr_solution, scores>>

vars == <<module_init_temperature, init_temperature, num_steps, graph, pc, error,
          curr_solution, curr_score, init_score, num_nodes, scores, k, step,
          num_evals, num_draws, result>>

args == <<init_temperature, num_steps, graph>>

Init ==
    /\ module_init_temperature = <<>>
    /\ init_temperature = 0
    /\ num_steps = 0
    /\ graph = [nodeCount |-> 0, edges |-> {}]
    /\ pc = "idle"
    /\ error = <<>>
    /\ curr_solution = <<>>
    /\ curr_score = 0
    /\ init_score = 0
    /\ num_nodes = 0
    /\ scores = <<>>
    /\ k = 0
    /\ step = <<>>
    /\ num_evals = 0
    /\ num_draws = 0
    /\ result = <<>>

\* ---------------------------------------------------------------- actions

\* init_temperature = ... at module level (the last cell, or any other cell)
AssignInitTemperature ==
    /\ pc = "idle"
    /\ \E t \in TempValues : module_init_temperature' = <<t>>
    /\ UNCHANGED <<args, pc, error, curr_solution, curr_score, init_score,
                   num_nodes, scores, k, step, num_evals, num_draws, result>>

\* simulated_annealing(t, n, g) up to the head of the loop of temperature_decay
Call ==
    /\ pc = "idle"
    /\ \E t \in ArgTempValues, n \in StepValues, g \in Graphs :
          LET init_solution == InitSolution(g.nodeCount) IN
          /\ init_temperature' = t
          /\ num_steps' = n
          /\ graph' = g
          /\ curr_solution' = init_solution
          /\ num_evals' = num_evals + 1
          /\ IF EvaluateRaises(init_solution, g)
             THEN /\ pc' = "failed"
                  /\ error' = <<"DimensionMismatch", 116>>
                  /\ UNCHANGED <<curr_score, init_score, num_nodes, scores, k>>
             ELSE /\ pc' = "iterating"
                  /\ error' = <<>>
                  /\ curr_score' = Evaluate(init_solution, g)
                  /\ init_score' = Evaluate(init_solution, g)
                  /\ num_nodes' = Len(init_solution)
                  /\ scores' = <<>>
                  /\ k' = 0
    /\ UNCHANGED <<module_init_temperature, step, num_draws, result>>

\* one iteration of the loop of temperature_decay
Step ==
    /\ pc = "iterating"
    /\ k < num_steps
    /\ IF module_init_temperature = <<>>
       THEN /\ pc' = "failed"
            /\ error' = <<"NameError", 122>>
            /\ UNCHANGED <<curr_solution, curr_score, scores, k, step,
                           num_evals, num_draws>>
       ELSE IF num_nodes <= 0
       THEN /\ pc' = "failed"
            /\ error' = <<"ValueError", 124>>
            /\ UNCHANGED <<curr_solution, curr_score, scores, k, step,
                           num_evals, num_draws>>
       ELSE \E idx \in 0 .. num_nodes - 1, u \in UniformDraws :
            LET temperature == Temperature(module_init_temperature[1], k, num_steps)
                new_solution == Flip(curr_solution, idx)
                new_score == Evaluate(new_solution, graph)
                delta_e == curr_score - new_score
                accepted == Accepts(delta_e, temperature, u)
            IN IF EvaluateRaises(new_solution, graph)
               THEN /\ pc' = "failed"
                    /\ error' = <<"DimensionMismatch", 126>>
                    /\ num_evals' = num_evals + 1
                    /\ UNCHANGED <<curr_solution, curr_score, scores, k, step,
                                   num_draws>>
               ELSE IF delta_e >= 0 /\ RIsZero(Divisor(temperature))
               THEN /\ pc' = "failed"
                    /\ error' = <<"ZeroDivisionError", 133>>
                    /\ num_evals' = num_evals + 1
                    /\ scores' = Append(scores, new_score)
                    /\ UNCHANGED <<curr_solution, curr_score, k, step, num_draws>>
               ELSE /\ pc' = "iterating"
                    /\ error' = <<>>
                    /\ num_evals' = num_evals + 1
                    /\ num_draws' = IF delta_e < 0 THEN num_draws ELSE num_draws + 1
                    /\ scores' = Append(scores, new_score)
                    /\ curr_solution' = NextSolution(accepted, new_solution, curr_solution)
                    /\ curr_score' = NextScore(accepted, new_score, curr_score)
                    /\ step' = <<[k |-> k,
                                  temperature |-> temperature,
                                  idx |-> idx,
                                  new_solution |-> new_solution,
                                  new_score |-> new_score,
                                  delta_e |-> delta_e,
                                  u |-> IF delta_e < 0 THEN <<>> ELSE <<u>>,
                                  accepted |-> accepted]>>
                    /\ k' = k + 1
    /\ UNCHANGED <<module_init_temperature, args, init_score, num_nodes, result>>

\* the loop is exhausted: temperature_decay returns, simulated_annealing returns
Return ==
    /\ pc = "iterating"
    /\ k >= num_steps
    /\ pc' = "done"
    /\ result' = <<curr_score, curr_solution, scores>>
    /\ UNCHANGED <<module_init_temperature, args, error, curr_solution, curr_score,
                   init_score, num_nodes, scores, k, step, num_evals, num_draws>>

Next == AssignInitTemperature \/ Call \/ Step \/ Return

Spec == Init /\ [][Next]_vars

\* ------------------------------------------------------------- properties

\* the locals of the last executed step (only where step # <<>>)
last == step[1]

\* the transition is one executed iteration of the loop
StepExecuted == pc = "iterating" /\ pc' = "iterating" /\ k' = k + 1

\* the number of positions where two solutions of equal length differ
Distance(a, b) == Cardinality({i \in 1 .. Len(a) : a[i] # b[i]})

\* the value the schedule reads as init_temperature is bound and positive
PositiveSchedule ==
    /\ module_init_temperature # <<>>
    /\ module_init_temperature[1] > 0

\* C1: once the initial solution is built, the current solution has exactly
\* N labels, each 0 or 1, for every node count N (odd as well as even); the
\* initial solution is floor(N/2) zeros followed by ceil(N/2) ones.
C1_SolutionHasNLabels ==
    pc # "idle" =>
        /\ Len(curr_solution) = graph.nodeCount
        /\ \A i \in 1 .. Len(curr_solution) : curr_solution[i] \in {0, 1}
        /\ (k = 0 /\ step = <<>>) =>
              curr_solution =
                  [i \in 1 .. graph.nodeCount |->
                      IF i <= graph.nodeCount \div 2 THEN 0 ELSE 1]

\* C2: in every state of the loop and at Done, the recorded curr_score is
\* the cut value of the current solution, and the returned pair is consistent.
C2_ScoreConsistency ==
    /\ pc \in {"iterating", "done"} =>
          curr_score = Evaluate(curr_solution, graph)
    /\ pc = "done" => result[1] = Evaluate(result[2], graph)

\* C2 witness: a finished run that accepted a move changing the score and
\* ended on a rejected move.
C2_Witness ==
    /\ pc = "done"
    /\ step # <<>>
    /\ k >= 2
    /\ curr_score # init_score
    /\ ~last.accepted
    /\ last.new_score # curr_score

\* C3: a call with num_steps <= 0 (on a non-empty graph whose initial
\* solution evaluates) ends failed with InvalidParameter; it never returns a
\* result.
C3_NonPositiveStepsRejected ==
    (/\ num_steps <= 0
     /\ graph.nodeCount >= 1
     /\ pc \in {"done", "failed"}
     /\ ~EvaluateRaises(curr_solution, graph)) =>
        /\ pc = "failed"
        /\ error[1] = "InvalidParameter"
        /\ result = <<>>

\* C4: for N >= 1 and num_steps >= 1 no error is raised inside the loop
\* (source lines 120 and later): a run fails at initialization or not at all.
C4_NoFailureAfterInit ==
    (/\ graph.nodeCount >= 1
     /\ num_steps >= 1
     /\ pc = "failed") => error[2] < 120

\* C5: the temperature of every executed step is the schedule of the
\* init_temperature argument of the call, whatever the module-level name
\* init_temperature is bound to.
C5_TemperatureFromArgument ==
    step # <<>> =>
        REq(last.temperature, Temperature(init_temperature, last.k, num_steps))

\* C6: at Done (on a non-empty graph) the returned trace has exactly
\* num_steps entries, and after step j the trace has j + 1 entries, the last
\* being that step's candidate score, accepted or not.
C6_TraceLength ==
    /\ (pc = "done" /\ graph.nodeCount >= 1) => Len(result[3]) = num_steps
    /\ step # <<>> =>
          /\ Len(scores) = last.k + 1
          /\ scores[last.k + 1] = last.new_score

\* C7: every executed step's candidate differs from the solution current at
\* step entry in exactly one position, so consecutive current solutions
\* differ in at most one position.
C7_SingleFlip ==
    [][StepExecuted =>
          /\ Len(step'[1].new_solution) = Len(curr_solution)
          /\ Distance(curr_solution, step'[1].new_solution) = 1
          /\ step'[1].new_solution[step'[1].idx + 1]
                = 1 - curr_solution[step'[1].idx + 1]
          /\ Distance(curr_solution, curr_solution') <= 1]_vars

\* C7 witness: a second step has been executed on a label that was 1, and
\* its candidate was accepted.
C7_Witness ==
    /\ step # <<>>
    /\ last.k >= 1
    /\ last.new_solution[last.idx + 1] = 0
    /\ last.accepted
    /\ curr_solution = last.new_solution

C9_NonWorseAccepted ==
    [][(StepExecuted /\ step'[1].new_score >= curr_score) =>
          /\ curr_solution' = step'[1].new_solution
          /\ curr_score' = step'[1].new_score]_vars

\* C9 witness: on a graph with edges, a tie went through the probabilistic
\* branch at temperature 0 in a step after the first, and was accepted.
C9_Witness ==
    /\ step # <<>>
    /\ graph.edges # {}
    /\ last.k >= 1
    /\ last.delta_e = 0
    /\ last.u # <<>>
    /\ RIsZero(last.temperature)
    /\ curr_solution = last.new_solution
    /\ curr_score = last.new_score

\* the executed step rejected its candidate: prob > u was false
Rejected(s) ==
    /\ s.delta_e >= 0
    /\ s.u # <<>>
    /\ ~ProbExceeds(Exponent(s.delta_e, s.temperature), s.u[1])

\* C10: a step that rejects its candidate leaves the current solution and
\* score as they were at step entry, yet makes one evaluator call, one draw
\* and one trace entry; no step changes the graph.
C10_RejectionFrame ==
    [][StepExecuted =>
          /\ graph' = graph
          /\ Rejected(step'[1]) =>
                /\ curr_solution' = curr_solution
                /\ curr_score' = curr_score
                /\ curr_solution' # step'[1].new_solution
                /\ num_evals' = num_evals + 1
                /\ num_draws' = num_draws + 1
                /\ scores' = Append(scores, step'[1].new_score)]_vars

\* C10 witness: the last step rejected a strictly worse candidate after an
\* earlier step had been executed.
C10_Witness ==
    /\ step # <<>>
    /\ last.k >= 1
    /\ Rejected(last)
    /\ last.delta_e > 0
    /\ curr_solution # last.new_solution
    /\ curr_score # last.new_score

====
